---- MODULE Spec2Model ----
(***************************************************************************)
(* Bolta Cloud Bridge: the outbound WebSocket channel (WSClient), the      *)
(* Bridge that authenticates on it and coordinates jobs, the credential    *)
(* store (Config over process.env and the config table) and the job store  *)
(* (LocalDB.jobs).                                                         *)
(*                                                                         *)
(* One action is one event-loop task: a socket event, a timer, an inbound  *)
(* frame or the settling of an executor call, together with the microtasks *)
(* it releases (the continuation of an awaited promise runs before the     *)
(* next task).  The executor is the collaborator injected into the Bridge  *)
(* constructor; _onJobDispatch awaits it, so the model lets its result     *)
(* arrive in a later task than the dispatch.  A handler whose promise      *)
(* rejects is recorded in last.threw; what the runtime then does with the  *)
(* unhandled rejection is not modelled.                                    *)
(***************************************************************************)
EXTENDS Integers, Sequences, FiniteSets, TLC

Null == "null"

\* ---------------------------------------------------------------- bounds
\* sockets created in SpecCreds, in Spec and SpecAuth, in SpecChannel
MaxSockets == 3
MaxJobSockets == 2
MaxBackoffSockets == 7
\* SpecLive: the endpoint refuses connections no later than socket
\* MaxFailSockets, and the socket numbered MaxLiveSockets stays open
MaxFailSockets == 2
MaxLiveSockets == 4
\* heartbeat and pong messages sent
MaxHeartbeats == 1
MaxPings == 1
MaxAuths == 3

\* ------------------------------------------------------- program constants
RECONNECT_DELAYS == <<1000, 2000, 5000, 10000, 30000>>

\* ------------------------------------------------------------ input sets
JobIds == {"j1", "j2"}
Slugs == {"hunter"}
JobInput == "find leads"
Keys == {"runner_key", "install_token", "workspace_id", "BOLTA_API_KEY",
         "voice_profile", "agent_settings"}

VARIABLES
  env,              \* process.env, as Config.get sees it for each key
  cfg,              \* LocalDB table config: key -> value or Null
  jobsTable,        \* LocalDB table jobs: id -> row (status "absent": no row)
  bridge,           \* position of Bridge.connect()
  token,            \* the token Bridge.connect() captured
  heartbeatTimer,   \* Bridge.heartbeatTimer is set
  activeJobs,       \* Bridge.activeJobs: a map job_id -> entry
  exec,             \* executor calls in flight, per job_id
  started,          \* executor calls ever started, per job_id
  socks,            \* every WebSocket created, in order; the last is WSClient.ws
  connected,        \* WSClient.connected
  reconnectAttempt, \* WSClient.reconnectAttempt
  shouldReconnect,  \* WSClient.shouldReconnect
  timers,           \* pending setTimeout callbacks of _reconnect (their delays)
  out,              \* every WSClient.send call; sock = 0 when it was dropped
  last,             \* the task that ran last
  closeCalled,      \* WSClient.close() has been called
  hsKey,            \* runner_key of the last handshake_complete that had one
  hsSock,           \* the socket the last handshake_complete arrived on (0: none)
  streak,           \* socket closes since the last successful open
  delays,           \* <<k, delay>> of each reconnect scheduled in this streak
  nReconnected,     \* 'reconnected' events emitted by _reconnect
  nOpens,           \* successful socket opens
  termWrites        \* updateJob calls that stored a terminal status, per job_id

vars == <<env, cfg, jobsTable, bridge, token, heartbeatTimer, activeJobs, exec,
          started, socks, connected, reconnectAttempt, shouldReconnect, timers,
          out, last, closeCalled, hsKey, hsSock, streak, delays, nReconnected, nOpens,
          termWrites>>

storeVars == <<env, cfg, jobsTable>>
jobVars == <<activeJobs, exec, started>>
wsVars == <<socks, connected, reconnectAttempt, shouldReconnect, timers>>
histVars == <<closeCalled, hsKey, hsSock, streak, delays, nReconnected, nOpens,
              termWrites>>

Min(a, b) == IF a < b THEN a ELSE b

\* a JavaScript Map: set, delete
EmptyMap == [x \in {} |-> Null]
MapSet(m, k, v) == [x \in (DOMAIN m) \cup {k} |-> IF x = k THEN v ELSE m[x]]
MapDelete(m, k) == [x \in (DOMAIN m) \ {k} |-> m[x]]

\* ------------------------------------------------------------ Config
\* process.env[key], process.env[KEY] and the BOLTA_TOKEN alias are one
\* lookup here: env[key] is the value the environment supplies for key.
Config_get(e, c, key) ==
  IF e[key] # Null THEN e[key] ELSE c[key]

Config_set(c, key, value) == [c EXCEPT ![key] = value]

Config_delete(c, key) == [c EXCEPT ![key] = Null]

\* this.config.get('runner_key') || this.config.get('install_token')
CurrentToken(e, c) ==
  IF Config_get(e, c, "runner_key") # Null
  THEN Config_get(e, c, "runner_key")
  ELSE Config_get(e, c, "install_token")

\* ------------------------------------------------------------ LocalDB
NoRow == [status |-> "absent", workspace_id |-> Null, agent_slug |-> Null,
          input |-> Null, output |-> Null, error |-> Null]

JSON_stringify(s) == "\"" \o s \o "\""

\* INSERT INTO jobs: fails on the PRIMARY KEY and NOT NULL constraints
createJob_replace(t, id, workspaceId, agentSlug, input) ==
  IF workspaceId = Null \/ agentSlug = Null \/ id = Null
  THEN [ok |-> FALSE, table |-> t]
  ELSE [ok |-> TRUE,
        table |-> [t EXCEPT ![id] =
                     [status |-> "running", workspace_id |-> workspaceId,
                      agent_slug |-> agentSlug, input |-> JSON_stringify(input),
                      output |-> Null, error |-> Null]]]

createJob(t, id, workspaceId, agentSlug, input) ==
  IF workspaceId = Null \/ agentSlug = Null \/ id = Null \/ t[id].status # "absent"
  THEN [ok |-> FALSE, table |-> t]
  ELSE [ok |-> TRUE,
        table |-> [t EXCEPT ![id] =
                     [status |-> "running", workspace_id |-> workspaceId,
                      agent_slug |-> agentSlug, input |-> JSON_stringify(input),
                      output |-> Null, error |-> Null]]]

\* UPDATE jobs SET status, output, error WHERE id: no row, no change
updateJob(t, id, status, output, error) ==
  IF t[id].status = "absent" THEN t
  ELSE [t EXCEPT ![id].status = status,
                 ![id].output = IF output # Null /\ output # ""
                                THEN JSON_stringify(output) ELSE Null,
                 ![id].error = error]

Terminal == {"complete", "failed", "cancelled"}

\* ------------------------------------------------------------ WSClient
Cur == Len(socks)

IsOpen(ss) == Len(ss) > 0 /\ ss[Len(ss)].state = "open"

\* WSClient.send: written only while this.ws.readyState is OPEN
Send_unchecked(o, ss, type, job, val) ==
  Append(o, [sock |-> Len(ss), type |-> type, job |-> job, val |-> val])

Send(o, ss, type, job, val) ==
  Append(o, [sock |-> IF IsOpen(ss) THEN Len(ss) ELSE 0,
             type |-> type, job |-> job, val |-> val])

Written == SelectSeq(out, LAMBDA m : m.sock # 0)

\* RECONNECT_DELAYS[Math.min(this.reconnectAttempt, RECONNECT_DELAYS.length - 1)]
ReconnectDelay_early(attempt) ==
  RECONNECT_DELAYS[Min(attempt + 1, Len(RECONNECT_DELAYS) - 1) + 1]

ReconnectDelay(attempt) ==
  RECONNECT_DELAYS[Min(attempt, Len(RECONNECT_DELAYS) - 1) + 1]

Event(type, job, threw, wasActive) ==
  [type |-> type, job |-> job, threw |-> threw, wasActive |-> wasActive]

\* ------------------------------------------------------------ Init
Creds ==
  { [env_it |-> Null, runner_key |-> Null, install_token |-> "it", workspace_id |-> Null],
    [env_it |-> "it", runner_key |-> Null, install_token |-> Null, workspace_id |-> Null],
    [env_it |-> Null, runner_key |-> "rk0", install_token |-> Null, workspace_id |-> "w0"],
    [env_it |-> Null, runner_key |-> "rk0", install_token |-> "it", workspace_id |-> "w0"],
    [env_it |-> "it", runner_key |-> "rk0", install_token |-> Null, workspace_id |-> "w0"],
    [env_it |-> Null, runner_key |-> Null, install_token |-> Null, workspace_id |-> Null] }

Init ==
  /\ \E c \in Creds :
       /\ env = [k \in Keys |-> IF k = "install_token" THEN c.env_it ELSE Null]
       /\ cfg = [k \in Keys |-> CASE k = "runner_key" -> c.runner_key
                                  [] k = "install_token" -> c.install_token
                                  [] k = "workspace_id" -> c.workspace_id
                                  [] OTHER -> Null]
  /\ jobsTable = [j \in JobIds |-> NoRow]
  /\ bridge = "new"
  /\ token = Null
  /\ heartbeatTimer = FALSE
  /\ activeJobs = EmptyMap
  /\ exec = [j \in JobIds |-> 0]
  /\ started = [j \in JobIds |-> 0]
  /\ socks = <<>>
  /\ connected = FALSE
  /\ reconnectAttempt = 0
  /\ shouldReconnect = TRUE
  /\ timers = <<>>
  /\ out = <<>>
  /\ last = Event("init", Null, FALSE, FALSE)
  /\ closeCalled = FALSE
  /\ hsKey = Null
  /\ hsSock = 0
  /\ streak = 0
  /\ delays = <<>>
  /\ nReconnected = 0
  /\ nOpens = 0
  /\ termWrites = [j \in JobIds |-> 0]

\* ------------------------------------------------------------ Bridge.connect
\* new WSClient, handlers registered, ws.connect() creates the first socket
BridgeConnect_unchecked ==
  /\ bridge = "new"
  /\ bridge' = "connecting"
  /\ token' = CurrentToken(env, cfg)
  /\ socks' = Append(socks, [state |-> "connecting", origin |-> "initial"])
  /\ last' = Event("connect", Null, FALSE, FALSE)
  /\ UNCHANGED <<storeVars, jobVars, heartbeatTimer, connected, reconnectAttempt,
                 shouldReconnect, timers, out, histVars>>

BridgeConnect ==
  /\ bridge = "new"
  /\ LET tok == CurrentToken(env, cfg) IN
       IF tok = Null
       THEN /\ bridge' = "failed"
            /\ last' = Event("connect", Null, TRUE, FALSE)
            /\ UNCHANGED <<token, socks>>
       ELSE /\ bridge' = "connecting"
            /\ token' = tok
            /\ socks' = Append(socks, [state |-> "connecting", origin |-> "initial"])
            /\ last' = Event("connect", Null, FALSE, FALSE)
  /\ UNCHANGED <<storeVars, jobVars, heartbeatTimer, connected, reconnectAttempt,
                 shouldReconnect, timers, out, histVars>>

\* the 'reconnected' listener registered by Bridge.connect
OnReconnected_silent(o, ss, e, c) == o

OnReconnected(o, ss, e, c) ==
  IF CurrentToken(e, c) # Null
  THEN Send(o, ss, "auth", Null, CurrentToken(e, c))
  ELSE o

\* 'reconnected' events emitted when a socket created by `origin` opens:
\* connect()'s open listener emits none, _reconnect emits one after connect()
ReconnectedEmits_always(origin) == 1

ReconnectedEmits(origin) == IF origin = "reconnect" THEN 1 ELSE 0

\* WSClient._reconnect, called by the 'close' listener
Reconnect_forgets ==
  LET delay == ReconnectDelay(reconnectAttempt) IN
    /\ reconnectAttempt' = reconnectAttempt + 1
    /\ timers' = timers
    /\ delays' = Append(delays, [k |-> streak, delay |-> delay])

Reconnect ==
  LET delay == ReconnectDelay(reconnectAttempt) IN
    /\ reconnectAttempt' = reconnectAttempt + 1
    /\ timers' = Append(timers, delay)
    /\ delays' = Append(delays, [k |-> streak, delay |-> delay])

\* the 'close' listener of a socket
OnClose_keepsConnected ==
  /\ connected' = connected
  /\ streak' = streak + 1
  /\ IF shouldReconnect
     THEN Reconnect
     ELSE UNCHANGED <<reconnectAttempt, timers, delays>>

OnClose ==
  /\ connected' = FALSE
  /\ streak' = streak + 1
  /\ IF shouldReconnect
     THEN Reconnect
     ELSE UNCHANGED <<reconnectAttempt, timers, delays>>

\* the 'open' listener of socket s, then the continuation of the awaited
\* connect(): Bridge.connect sends auth and starts the heartbeat, the timer
\* callback of _reconnect emits 'reconnected'
SocketOpen(s) ==
  /\ socks[s].state = "connecting"
  /\ LET ss == [socks EXCEPT ![s].state = "open"]
         n == ReconnectedEmits(socks[s].origin)
         first == socks[s].origin = "initial" /\ bridge = "connecting"
         o1 == IF first THEN Send(out, ss, "auth", Null, token) ELSE out
         o2 == IF n > 0 THEN OnReconnected(o1, ss, env, cfg) ELSE o1
     IN /\ socks' = ss
        /\ connected' = TRUE
        /\ reconnectAttempt' = 0
        /\ bridge' = IF first THEN "connected" ELSE bridge
        /\ heartbeatTimer' = IF first THEN TRUE ELSE heartbeatTimer
        /\ out' = o2
        /\ nReconnected' = nReconnected + n
  /\ nOpens' = nOpens + 1
  /\ streak' = 0
  /\ delays' = <<>>
  /\ last' = Event("open", Null, FALSE, FALSE)
  /\ UNCHANGED <<storeVars, jobVars, token, shouldReconnect, timers, closeCalled,
                 hsKey, hsSock,
                 termWrites>>

\* a socket that never opened: its 'error' listener (reject while not
\* connected), then its 'close' listener
SocketFail_both(s) ==
  /\ socks[s].state \in {"connecting", "aborting"}
  /\ socks' = [socks EXCEPT ![s].state = "closed"]
  /\ bridge' = IF ~connected /\ socks[s].origin = "initial" /\ bridge = "connecting"
               THEN "failed" ELSE bridge
  /\ connected' = FALSE
  /\ streak' = streak + 1
  /\ reconnectAttempt' = reconnectAttempt + 2
  /\ timers' = timers \o <<ReconnectDelay(reconnectAttempt),
                           ReconnectDelay(reconnectAttempt + 1)>>
  /\ delays' = Append(delays, [k |-> streak, delay |-> ReconnectDelay(reconnectAttempt)])
  /\ last' = Event("fail", Null, FALSE, FALSE)
  /\ UNCHANGED <<storeVars, jobVars, token, heartbeatTimer, shouldReconnect, out,
                 closeCalled, hsKey, hsSock, nReconnected, nOpens, termWrites>>

SocketFail(s) ==
  /\ socks[s].state \in {"connecting", "aborting"}
  /\ socks' = [socks EXCEPT ![s].state = "closed"]
  /\ bridge' = IF ~connected /\ socks[s].origin = "initial" /\ bridge = "connecting"
               THEN "failed" ELSE bridge
  /\ OnClose
  /\ last' = Event("fail", Null, FALSE, FALSE)
  /\ UNCHANGED <<storeVars, jobVars, token, heartbeatTimer, shouldReconnect, out,
                 closeCalled, hsKey, hsSock, nReconnected, nOpens, termWrites>>

\* the 'error' listener of a socket that has opened: reject(err) only while
\* not connected, otherwise the error is logged (the closure that follows
\* an error is the socket's 'close' event)
SocketError_rejects(s) ==
  /\ socks[s].state = "open"
  /\ bridge' = IF socks[s].origin = "initial" THEN "failed" ELSE bridge
  /\ last' = Event("socket_error", Null, FALSE, FALSE)
  /\ UNCHANGED <<storeVars, jobVars, token, heartbeatTimer, wsVars, out, histVars>>

SocketError(s) ==
  /\ socks[s].state = "open"
  /\ bridge' = IF ~connected /\ socks[s].origin = "initial" /\ bridge = "connecting"
               THEN "failed" ELSE bridge
  /\ last' = Event("socket_error", Null, FALSE, FALSE)
  /\ UNCHANGED <<storeVars, jobVars, token, heartbeatTimer, wsVars, out, histVars>>

\* an open (or closing) socket closes: its 'close' listener
SocketClose_dropsJobs(s) ==
  /\ socks[s].state \in {"open", "closing"}
  /\ socks' = [socks EXCEPT ![s].state = "closed"]
  /\ OnClose
  /\ activeJobs' = EmptyMap
  /\ last' = Event("close", Null, FALSE, FALSE)
  /\ UNCHANGED <<storeVars, exec, started, bridge, token, heartbeatTimer,
                 shouldReconnect, out, closeCalled, hsKey, hsSock, nReconnected,
                 nOpens, termWrites>>

SocketClose(s) ==
  /\ socks[s].state \in {"open", "closing"}
  /\ socks' = [socks EXCEPT ![s].state = "closed"]
  /\ OnClose
  /\ last' = Event("close", Null, FALSE, FALSE)
  /\ UNCHANGED <<storeVars, jobVars, bridge, token, heartbeatTimer, shouldReconnect,
                 out, closeCalled, hsKey, hsSock, nReconnected, nOpens, termWrites>>

\* the setTimeout callback of _reconnect: this.connect() creates a socket
TimerFire_repeats ==
  /\ Len(timers) > 0
  /\ timers' = timers
  /\ socks' = Append(socks, [state |-> "connecting", origin |-> "reconnect"])
  /\ last' = Event("timer", Null, FALSE, FALSE)
  /\ UNCHANGED <<storeVars, jobVars, bridge, token, heartbeatTimer, connected,
                 reconnectAttempt, shouldReconnect, out, histVars>>

TimerFire ==
  /\ Len(timers) > 0
  /\ timers' = Tail(timers)
  /\ socks' = Append(socks, [state |-> "connecting", origin |-> "reconnect"])
  /\ last' = Event("timer", Null, FALSE, FALSE)
  /\ UNCHANGED <<storeVars, jobVars, bridge, token, heartbeatTimer, connected,
                 reconnectAttempt, shouldReconnect, out, histVars>>

\* Bridge.disconnect: clearInterval, then WSClient.close()
Disconnect ==
  /\ Len(socks) > 0
  /\ heartbeatTimer' = FALSE
  /\ shouldReconnect' = FALSE
  /\ socks' = [socks EXCEPT ![Cur].state =
                 CASE @ = "open" -> "closing"
                   [] @ = "connecting" -> "aborting"
                   [] OTHER -> @]
  /\ closeCalled' = TRUE
  /\ last' = Event("disconnect", Null, FALSE, FALSE)
  /\ UNCHANGED <<storeVars, jobVars, bridge, token, connected, reconnectAttempt,
                 timers, out, hsKey, hsSock, streak, delays, nReconnected, nOpens,
                 termWrites>>

\* ------------------------------------------------------------ cli
\* tokens an operator types: a workspace install token, a runner key
CliTokens == {"it", "rk_s"}

\* token.startsWith('rk_')
StartsWith_rk(t) == t \in {"rk_s"}

\* `boltaclaw start --token t`, before the Bridge is connected
StartToken(t) ==
  /\ bridge = "new"
  /\ cfg' = Config_set(cfg, "install_token", t)
  /\ last' = Event("start", Null, FALSE, FALSE)
  /\ UNCHANGED <<env, jobsTable, jobVars, bridge, token, heartbeatTimer, wsVars, out,
                 histVars>>

\* `boltaclaw setup` with token t
Setup(t) ==
  /\ bridge = "new"
  /\ cfg' = IF StartsWith_rk(t) THEN Config_set(cfg, "runner_key", t)
            ELSE Config_set(cfg, "install_token", t)
  /\ last' = Event("setup", Null, FALSE, FALSE)
  /\ UNCHANGED <<env, jobsTable, jobVars, bridge, token, heartbeatTimer, wsVars, out,
                 histVars>>

\* the process ends (process.exit in the start action) and `boltaclaw start`
\* runs again: the environment and the database file stay, everything in
\* memory is new
Restart ==
  /\ bridge # "new"
  /\ bridge' = "new"
  /\ token' = Null
  /\ heartbeatTimer' = FALSE
  /\ activeJobs' = EmptyMap
  /\ exec' = [j \in JobIds |-> 0]
  /\ socks' = <<>>
  /\ connected' = FALSE
  /\ reconnectAttempt' = 0
  /\ shouldReconnect' = TRUE
  /\ timers' = <<>>
  /\ out' = <<>>
  /\ closeCalled' = FALSE
  /\ hsKey' = Null
  /\ hsSock' = 0
  /\ streak' = 0
  /\ delays' = <<>>
  /\ nReconnected' = 0
  /\ nOpens' = 0
  /\ last' = Event("restart", Null, FALSE, FALSE)
  /\ UNCHANGED <<storeVars, started, termWrites>>

\* ------------------------------------------------------------ inbound frames
\* a 'message' event needs a socket that is open (or closing: frames still
\* arrive until the close handshake ends)
Receiving == \E s \in 1..Len(socks) : socks[s].state \in {"open", "closing"}

\* the socket a frame arrives on
RxSock == CHOOSE s \in 1..Len(socks) : socks[s].state \in {"open", "closing"}

NoConfig ==
  [present |-> FALSE, api_key |-> Null, voice_profile |-> Null, agent_settings |-> Null,
   runner_key |-> Null, install_token |-> Null]

HandshakePayloads ==
  { [runner_key |-> "rk1", workspace_id |-> "w1", api_key |-> Null, config |-> NoConfig],
    [runner_key |-> Null, workspace_id |-> "w1", api_key |-> Null, config |-> NoConfig],
    [runner_key |-> "rk1", workspace_id |-> Null, api_key |-> "ak",
     config |-> [present |-> TRUE, api_key |-> Null, voice_profile |-> "vp",
                 agent_settings |-> Null, runner_key |-> Null, install_token |-> Null]],
    [runner_key |-> Null, workspace_id |-> Null, api_key |-> Null, config |-> NoConfig] }

ConfigPayloads ==
  { NoConfig,
    [present |-> TRUE, api_key |-> "ak", voice_profile |-> Null, agent_settings |-> Null,
     runner_key |-> Null, install_token |-> Null],
    [present |-> TRUE, api_key |-> Null, voice_profile |-> "vp", agent_settings |-> Null,
     runner_key |-> Null, install_token |-> Null],
    [present |-> TRUE, api_key |-> Null, voice_profile |-> Null, agent_settings |-> "as",
     runner_key |-> Null, install_token |-> Null],
    [present |-> TRUE, api_key |-> "ak", voice_profile |-> Null, agent_settings |-> Null,
     runner_key |-> "rk9", install_token |-> "it9"] }

\* OpenClawManager.applyCloudConfig: the config keys it writes
applyCloudConfig(c, config) ==
  IF config.present /\ config.voice_profile # Null
  THEN Config_set(c, "voice_profile", config.voice_profile)
  ELSE c

\* Bridge._onHandshake: the config table after the handler ran on table c
HandshakeStore_alwaysBurns(c, p) ==
  LET c1 == IF p.runner_key # Null
            THEN Config_delete(Config_set(c, "runner_key", p.runner_key),
                               "install_token")
            ELSE Config_delete(c, "install_token")
      c2 == IF p.workspace_id # Null
            THEN Config_set(c1, "workspace_id", p.workspace_id) ELSE c1
      c3 == IF p.api_key # Null
            THEN Config_set(c2, "BOLTA_API_KEY", p.api_key) ELSE c2
  IN applyCloudConfig(c3, p.config)

HandshakeStore_burnsOnWorkspace(c, p) ==
  LET c1 == IF p.runner_key # Null
            THEN Config_set(c, "runner_key", p.runner_key)
            ELSE c
      c2 == IF p.workspace_id # Null
            THEN Config_delete(Config_set(c1, "workspace_id", p.workspace_id),
                               "install_token")
            ELSE c1
      c3 == IF p.api_key # Null
            THEN Config_set(c2, "BOLTA_API_KEY", p.api_key) ELSE c2
  IN applyCloudConfig(c3, p.config)

HandshakeStore(c, p) ==
  LET c1 == IF p.runner_key # Null
            THEN Config_delete(Config_set(c, "runner_key", p.runner_key),
                               "install_token")
            ELSE c
      c2 == IF p.workspace_id # Null
            THEN Config_set(c1, "workspace_id", p.workspace_id) ELSE c1
      c3 == IF p.api_key # Null
            THEN Config_set(c2, "BOLTA_API_KEY", p.api_key) ELSE c2
  IN applyCloudConfig(c3, p.config)

\* the handshake_complete event just handled: its payload, and whether the
\* event handled immediately before it was a handshake_complete with the
\* same payload
HandshakeEvent(p) ==
  [type |-> "handshake_complete", job |-> Null, threw |-> FALSE, wasActive |-> FALSE,
   payload |-> p,
   repeated |-> (last.type = "handshake_complete" /\ last.payload = p)]

\* Bridge._onHandshake
onHandshake(p) ==
  /\ Receiving
  /\ cfg' = HandshakeStore(cfg, p)
  /\ hsKey' = IF p.runner_key # Null THEN p.runner_key ELSE hsKey
  /\ hsSock' = RxSock
  /\ last' = HandshakeEvent(p)
  /\ UNCHANGED <<env, jobsTable, jobVars, bridge, token, heartbeatTimer, wsVars, out,
                 closeCalled, streak, delays, nReconnected, nOpens, termWrites>>

\* the config_sync event just handled, with its payload
ConfigSyncEvent(config) ==
  [type |-> "config_sync", job |-> Null, threw |-> FALSE, wasActive |-> FALSE,
   payload |-> config]

\* Bridge._onConfigSync
onConfigSync_mergesAll(config) ==
  /\ Receiving
  /\ cfg' = IF config.present
            THEN [k \in Keys |->
                    CASE k = "BOLTA_API_KEY" /\ config.api_key # Null -> config.api_key
                      [] k \in DOMAIN config /\ config[k] # Null -> config[k]
                      [] OTHER -> cfg[k]]
            ELSE cfg
  /\ last' = ConfigSyncEvent(config)
  /\ UNCHANGED <<env, jobsTable, jobVars, bridge, token, heartbeatTimer, wsVars, out,
                 histVars>>

onConfigSync(config) ==
  /\ Receiving
  /\ cfg' = IF config.present
            THEN applyCloudConfig(
                   IF config.api_key # Null
                   THEN Config_set(cfg, "BOLTA_API_KEY", config.api_key) ELSE cfg,
                   config)
            ELSE cfg
  /\ last' = ConfigSyncEvent(config)
  /\ UNCHANGED <<env, jobsTable, jobVars, bridge, token, heartbeatTimer, wsVars, out,
                 histVars>>

\* Bridge._onJobDispatch up to the await: createJob (which may throw, and
\* the handler's promise then rejects), activeJobs.set, the first progress
\* report, the executor call
onJobDispatch_reportsFirst(j, slug) ==
  /\ Receiving
  /\ LET r == createJob(jobsTable, j, Config_get(env, cfg, "workspace_id"), slug,
                        JobInput)
     IN /\ out' = Send(out, socks, "job_progress", j, "thinking")
        /\ IF r.ok
           THEN /\ jobsTable' = r.table
                /\ activeJobs' = MapSet(activeJobs, j,
                                        [status |-> "running", agent_slug |-> slug])
                /\ exec' = [exec EXCEPT ![j] = @ + 1]
                /\ started' = [started EXCEPT ![j] = @ + 1]
           ELSE UNCHANGED <<jobsTable, activeJobs, exec, started>>
  /\ last' = Event("job_dispatch", j,
                   ~createJob(jobsTable, j, Config_get(env, cfg, "workspace_id"),
                              slug, JobInput).ok,
                   j \in DOMAIN activeJobs)
  /\ UNCHANGED <<env, cfg, bridge, token, heartbeatTimer, wsVars, histVars>>

onJobDispatch(j, slug) ==
  /\ Receiving
  /\ LET r == createJob(jobsTable, j, Config_get(env, cfg, "workspace_id"), slug,
                        JobInput)
     IN IF r.ok
        THEN /\ jobsTable' = r.table
             /\ activeJobs' = MapSet(activeJobs, j,
                                     [status |-> "running", agent_slug |-> slug])
             /\ out' = Send(out, socks, "job_progress", j, "thinking")
             /\ exec' = [exec EXCEPT ![j] = @ + 1]
             /\ started' = [started EXCEPT ![j] = @ + 1]
        ELSE UNCHANGED <<jobsTable, activeJobs, out, exec, started>>
  /\ last' = Event("job_dispatch", j,
                   ~createJob(jobsTable, j, Config_get(env, cfg, "workspace_id"),
                              slug, JobInput).ok,
                   j \in DOMAIN activeJobs)
  /\ UNCHANGED <<env, cfg, bridge, token, heartbeatTimer, wsVars, histVars>>

Results ==
  { [success |-> TRUE, output |-> "draft A", error |-> Null],
    [success |-> FALSE, output |-> Null, error |-> "boom"],
    [success |-> FALSE, output |-> Null, error |-> Null] }

\* Bridge._onJobDispatch after the await: the executor call for j settled
\* with r (a rejection is the catch branch, as success = false is)
ExecSettle_whenOpen(j, r) ==
  /\ exec[j] > 0
  /\ exec' = [exec EXCEPT ![j] = @ - 1]
  /\ out' = Send(out, socks, IF r.success THEN "job_complete" ELSE "job_failed", j,
                 IF r.success THEN r.output ELSE r.error)
  /\ IF IsOpen(socks)
     THEN /\ jobsTable' = updateJob(jobsTable, j,
                                    IF r.success THEN "complete" ELSE "failed",
                                    r.output, r.error)
          /\ activeJobs' = MapDelete(activeJobs, j)
          /\ termWrites' = [termWrites EXCEPT ![j] = @ + 1]
     ELSE UNCHANGED <<jobsTable, activeJobs, termWrites>>
  /\ last' = Event(IF r.success THEN "exec_ok" ELSE "exec_fail", j, FALSE,
                   j \in DOMAIN activeJobs)
  /\ UNCHANGED <<env, cfg, started, bridge, token, heartbeatTimer, wsVars, closeCalled,
                 hsKey, hsSock, streak, delays, nReconnected, nOpens>>

ExecSettle_ignoreFlag(j, r) ==
  /\ exec[j] > 0
  /\ exec' = [exec EXCEPT ![j] = @ - 1]
  /\ out' = Send(out, socks, "job_complete", j, r.output)
  /\ jobsTable' = updateJob(jobsTable, j, "complete", r.output, Null)
  /\ activeJobs' = MapDelete(activeJobs, j)
  /\ termWrites' = IF jobsTable[j].status # "absent"
                   THEN [termWrites EXCEPT ![j] = @ + 1] ELSE termWrites
  /\ last' = Event(IF r.success THEN "exec_ok" ELSE "exec_fail", j, FALSE,
                   j \in DOMAIN activeJobs)
  /\ UNCHANGED <<env, cfg, started, bridge, token, heartbeatTimer, wsVars, closeCalled,
                 hsKey, hsSock, streak, delays, nReconnected, nOpens>>

ExecSettle_noFinally(j, r) ==
  /\ exec[j] > 0
  /\ exec' = [exec EXCEPT ![j] = @ - 1]
  /\ IF r.success
     THEN /\ out' = Send(out, socks, "job_complete", j, r.output)
          /\ jobsTable' = updateJob(jobsTable, j, "complete", r.output, Null)
     ELSE LET message == IF r.error # Null THEN r.error ELSE "Agent execution failed"
          IN /\ out' = Send(out, socks, "job_failed", j, message)
             /\ jobsTable' = updateJob(jobsTable, j, "failed", Null, message)
  /\ activeJobs' = activeJobs
  /\ termWrites' = IF jobsTable[j].status # "absent"
                   THEN [termWrites EXCEPT ![j] = @ + 1] ELSE termWrites
  /\ last' = Event(IF r.success THEN "exec_ok" ELSE "exec_fail", j, FALSE,
                   j \in DOMAIN activeJobs)
  /\ UNCHANGED <<env, cfg, started, bridge, token, heartbeatTimer, wsVars, closeCalled,
                 hsKey, hsSock, streak, delays, nReconnected, nOpens>>

ExecSettle(j, r) ==
  /\ exec[j] > 0
  /\ exec' = [exec EXCEPT ![j] = @ - 1]
  /\ IF r.success
     THEN /\ out' = Send(out, socks, "job_complete", j, r.output)
          /\ jobsTable' = updateJob(jobsTable, j, "complete", r.output, Null)
     ELSE LET message == IF r.error # Null THEN r.error ELSE "Agent execution failed"
          IN /\ out' = Send(out, socks, "job_failed", j, message)
             /\ jobsTable' = updateJob(jobsTable, j, "failed", Null, message)
  /\ activeJobs' = MapDelete(activeJobs, j)
  /\ termWrites' = IF jobsTable[j].status # "absent"
                   THEN [termWrites EXCEPT ![j] = @ + 1] ELSE termWrites
  /\ last' = Event(IF r.success THEN "exec_ok" ELSE "exec_fail", j, FALSE,
                   j \in DOMAIN activeJobs)
  /\ UNCHANGED <<env, cfg, started, bridge, token, heartbeatTimer, wsVars, closeCalled,
                 hsKey, hsSock, streak, delays, nReconnected, nOpens>>

\* Bridge._onJobCancel
onJobCancel_unguarded(j) ==
  /\ Receiving
  /\ activeJobs' = MapDelete(activeJobs, j)
  /\ jobsTable' = updateJob(jobsTable, j, "cancelled", Null, Null)
  /\ termWrites' = IF jobsTable[j].status # "absent"
                   THEN [termWrites EXCEPT ![j] = @ + 1] ELSE termWrites
  /\ last' = Event("job_cancel", j, FALSE, j \in DOMAIN activeJobs)
  /\ UNCHANGED <<env, cfg, exec, started, bridge, token, heartbeatTimer, wsVars, out,
                 closeCalled, hsKey, hsSock, streak, delays, nReconnected, nOpens>>

onJobCancel_aborts(j) ==
  /\ Receiving
  /\ IF j \in DOMAIN activeJobs
     THEN /\ activeJobs' = MapDelete(activeJobs, j)
          /\ jobsTable' = updateJob(jobsTable, j, "cancelled", Null, Null)
          /\ termWrites' = IF jobsTable[j].status # "absent"
                           THEN [termWrites EXCEPT ![j] = @ + 1] ELSE termWrites
          /\ exec' = [exec EXCEPT ![j] = 0]
     ELSE UNCHANGED <<activeJobs, jobsTable, termWrites, exec>>
  /\ last' = Event("job_cancel", j, FALSE, j \in DOMAIN activeJobs)
  /\ UNCHANGED <<env, cfg, started, bridge, token, heartbeatTimer, wsVars, out,
                 closeCalled, hsKey, hsSock, streak, delays, nReconnected, nOpens>>

onJobCancel(j) ==
  /\ Receiving
  /\ IF j \in DOMAIN activeJobs
     THEN /\ activeJobs' = MapDelete(activeJobs, j)
          /\ jobsTable' = updateJob(jobsTable, j, "cancelled", Null, Null)
          /\ termWrites' = IF jobsTable[j].status # "absent"
                           THEN [termWrites EXCEPT ![j] = @ + 1] ELSE termWrites
     ELSE UNCHANGED <<activeJobs, jobsTable, termWrites>>
  /\ last' = Event("job_cancel", j, FALSE, j \in DOMAIN activeJobs)
  /\ UNCHANGED <<env, cfg, exec, started, bridge, token, heartbeatTimer, wsVars, out,
                 closeCalled, hsKey, hsSock, streak, delays, nReconnected, nOpens>>

Count(type) == Len(SelectSeq(out, LAMBDA m : m.type = type))

\* the 'ping' listener
onPing_echo ==
  /\ Receiving
  /\ Count("pong") < MaxPings
  /\ out' = Send(Send(out, socks, "ping", Null, Null), socks, "pong", Null, Null)
  /\ last' = Event("ping", Null, FALSE, FALSE)
  /\ UNCHANGED <<storeVars, jobVars, bridge, token, heartbeatTimer, wsVars, histVars>>

onPing_twice ==
  /\ Receiving
  /\ Count("pong") < MaxPings
  /\ out' = Send(Send(out, socks, "pong", Null, Null), socks, "pong", Null, Null)
  /\ last' = Event("ping", Null, FALSE, FALSE)
  /\ UNCHANGED <<storeVars, jobVars, bridge, token, heartbeatTimer, wsVars, histVars>>

onPing ==
  /\ Receiving
  /\ Count("pong") < MaxPings
  /\ out' = Send(out, socks, "pong", Null, Null)
  /\ last' = Event("ping", Null, FALSE, FALSE)
  /\ UNCHANGED <<storeVars, jobVars, bridge, token, heartbeatTimer, wsVars, histVars>>

\* the heartbeat payload: active_jobs is activeJobs.size, agents has the
\* agent_slug of each entry (the order of the list is not kept)
HeartbeatData ==
  [active_jobs |-> Cardinality(DOMAIN activeJobs),
   agents |-> [j \in DOMAIN activeJobs |-> activeJobs[j].agent_slug]]

\* the setInterval callback of Bridge._startHeartbeat
HeartbeatTick_unchecked ==
  /\ heartbeatTimer
  /\ Count("heartbeat") < MaxHeartbeats
  /\ out' = Send(out, socks, "heartbeat", Null, HeartbeatData)
  /\ last' = Event("heartbeat", Null, FALSE, FALSE)
  /\ UNCHANGED <<storeVars, jobVars, bridge, token, heartbeatTimer, wsVars, histVars>>

HeartbeatTick ==
  /\ heartbeatTimer
  /\ Count("heartbeat") < MaxHeartbeats
  /\ out' = IF connected THEN Send(out, socks, "heartbeat", Null, HeartbeatData) ELSE out
  /\ last' = Event("heartbeat", Null, FALSE, FALSE)
  /\ UNCHANGED <<storeVars, jobVars, bridge, token, heartbeatTimer, wsVars, histVars>>

\* ------------------------------------------------------------ 'message'
\* the object a handler reads when the frame has no data: `{}`, every field
\* of which is undefined
EmptyObject ==
  [job_id |-> Null, agent_slug |-> Null, runner_key |-> Null, workspace_id |-> Null,
   api_key |-> Null, config |-> NoConfig]

\* raw frames: json says whether JSON.parse accepts the text, type is
\* msg.type (Null: no such field), hasData whether msg.data is there
Frame(json, type, hasData, data) ==
  [json |-> json, type |-> type, hasData |-> hasData, data |-> data]

Frames ==
  { Frame(FALSE, Null, FALSE, EmptyObject),
    Frame(TRUE, Null, TRUE, [EmptyObject EXCEPT !.job_id = "j1", !.agent_slug = "hunter"]),
    Frame(TRUE, "telemetry", TRUE,
          [EmptyObject EXCEPT !.job_id = "j1", !.agent_slug = "hunter"]),
    Frame(TRUE, "handshake_complete", FALSE, EmptyObject),
    Frame(TRUE, "job_dispatch", FALSE, EmptyObject),
    Frame(TRUE, "job_cancel", FALSE, EmptyObject),
    Frame(TRUE, "config_sync", FALSE, EmptyObject),
    Frame(TRUE, "ping", FALSE, EmptyObject),
    Frame(TRUE, "error", FALSE, EmptyObject),
    Frame(TRUE, "handshake_complete", TRUE,
          [EmptyObject EXCEPT !.runner_key = "rk1", !.workspace_id = "w1"]),
    Frame(TRUE, "job_dispatch", TRUE,
          [EmptyObject EXCEPT !.job_id = "j1", !.agent_slug = "hunter"]),
    Frame(TRUE, "job_cancel", TRUE, [EmptyObject EXCEPT !.job_id = "j1"]) }

\* the event names with a listener on the WSClient
Subscribed ==
  {"handshake_complete", "job_dispatch", "job_cancel", "config_sync", "ping", "error",
   "reconnected"}

NoEvent == [type |-> Null, data |-> EmptyObject]

\* the 'message' listener: JSON.parse, `if (msg.type)`, `msg.data || {}`
FrameEvent_needsData(f) ==
  IF ~f.json \/ f.type = Null \/ ~f.hasData
  THEN NoEvent
  ELSE [type |-> f.type, data |-> f.data]

FrameEvent(f) ==
  IF ~f.json \/ f.type = Null
  THEN NoEvent
  ELSE [type |-> f.type, data |-> IF f.hasData THEN f.data ELSE EmptyObject]

\* the 'message' listener of the socket and the listeners emit() calls
onMessage(f) ==
  LET ev == FrameEvent(f)
      d == ev.data
  IN IF ev.type \notin Subscribed
     THEN /\ Receiving
          /\ last' = Event("message_dropped", Null, FALSE, FALSE)
          /\ UNCHANGED <<storeVars, jobVars, bridge, token, heartbeatTimer, wsVars, out,
                         histVars>>
     ELSE CASE ev.type = "handshake_complete" ->
                 onHandshake([runner_key |-> d.runner_key,
                              workspace_id |-> d.workspace_id,
                              api_key |-> d.api_key, config |-> d.config])
            [] ev.type = "job_dispatch" -> onJobDispatch(d.job_id, d.agent_slug)
            [] ev.type = "job_cancel" -> onJobCancel(d.job_id)
            [] ev.type = "config_sync" -> onConfigSync(d.config)
            [] ev.type = "ping" -> onPing
            [] ev.type = "error" ->
                 /\ Receiving
                 /\ last' = Event("error", Null, FALSE, FALSE)
                 /\ UNCHANGED <<storeVars, jobVars, bridge, token, heartbeatTimer,
                                wsVars, out, histVars>>
            [] ev.type = "reconnected" ->
                 /\ Receiving
                 /\ out' = OnReconnected(out, socks, env, cfg)
                 /\ last' = Event("reconnected", Null, FALSE, FALSE)
                 /\ UNCHANGED <<storeVars, jobVars, bridge, token, heartbeatTimer,
                                wsVars, histVars>>

\* ------------------------------------------------------------ specifications
\* the handshakes that issue a runner key and name the workspace
RotatingHandshakes ==
  {h \in HandshakePayloads : h.runner_key # Null /\ h.workspace_id # Null}

\* The job coordinator: dispatch, cancel and executor results for two job
\* ids, before and after the handshake that names the workspace, over a
\* channel that may drop and reconnect once.
Next ==
  \/ BridgeConnect
  \/ \E s \in 1..Len(socks) : SocketOpen(s)
  \/ \E s \in 1..Len(socks) : SocketClose(s)
  \/ (Len(socks) < MaxJobSockets /\ TimerFire)
  \/ \E p \in RotatingHandshakes : onHandshake(p)
  \/ \E j \in JobIds, a \in Slugs : onJobDispatch(j, a)
  \/ \E j \in JobIds, r \in Results : ExecSettle(j, r)
  \/ \E j \in JobIds : onJobCancel(j)

Spec == Init /\ [][Next]_vars

\* The transport channel: connection attempts, backoff, shutdown.
NextChannel ==
  \/ BridgeConnect
  \/ \E s \in 1..Len(socks) : SocketOpen(s)
  \/ \E s \in 1..Len(socks) : SocketFail(s)
  \/ \E s \in 1..Len(socks) : SocketClose(s)
  \/ \E s \in 1..Len(socks) : SocketError(s)
  \/ (Len(socks) < MaxBackoffSockets /\ TimerFire)
  \/ Disconnect
  \/ HeartbeatTick

SpecChannel == Init /\ [][NextChannel]_vars

\* Authentication order: one job in flight, heartbeat and ping traffic, and
\* the handshake that rotates the credential, across a reconnection.
NextAuth ==
  \/ BridgeConnect
  \/ \E s \in 1..Len(socks) : SocketOpen(s)
  \/ \E s \in 1..Len(socks) : SocketFail(s)
  \/ \E s \in 1..Len(socks) : SocketClose(s)
  \/ (Len(socks) < MaxJobSockets /\ TimerFire)
  \/ \E p \in RotatingHandshakes : onHandshake(p)
  \/ \E a \in Slugs : onJobDispatch("j1", a)
  \/ \E r \in Results : ExecSettle("j1", r)
  \/ onPing
  \/ HeartbeatTick

SpecAuth == Init /\ [][NextAuth]_vars

\* The credential store: handshake and config sync across reconnections.
NextCreds ==
  \/ BridgeConnect
  \/ \E s \in 1..Len(socks) : SocketOpen(s)
  \/ \E s \in 1..Len(socks) : SocketFail(s)
  \/ \E s \in 1..Len(socks) : SocketClose(s)
  \/ (Len(socks) < MaxSockets /\ TimerFire)
  \/ Disconnect
  \/ \E p \in HandshakePayloads : onHandshake(p)
  \/ \E c \in ConfigPayloads : onConfigSync(c)

SpecCreds == Init /\ [][NextCreds]_vars

\* Installation and restarts: tokens entered on the command line, the
\* handshake, and the process started again over the same database.  It
\* starts from the stores of an installation that holds at most one token.
InitStartup ==
  /\ Init
  /\ ~(cfg["runner_key"] # Null /\ cfg["install_token"] # Null)

NextStartup ==
  \/ \E t \in CliTokens : StartToken(t)
  \/ \E t \in CliTokens : Setup(t)
  \/ BridgeConnect
  \/ \E s \in 1..Len(socks) : SocketOpen(s)
  \/ \E s \in 1..Len(socks) : SocketFail(s)
  \/ \E s \in 1..Len(socks) : SocketClose(s)
  \/ (Len(socks) < MaxJobSockets /\ TimerFire)
  \/ \E p \in HandshakePayloads : onHandshake(p)
  \/ Restart

SpecStartup == InitStartup /\ [][NextStartup]_vars

\* Inbound frames as the socket delivers them: malformed, untyped, unknown
\* and typed frames, with and without data, around one job.
NextFrames ==
  \/ BridgeConnect
  \/ \E s \in 1..Len(socks) : SocketOpen(s)
  \/ \E s \in 1..Len(socks) : SocketClose(s)
  \/ (Len(socks) < MaxJobSockets /\ TimerFire)
  \/ \E f \in Frames : onMessage(f)
  \/ \E r \in Results : ExecSettle("j1", r)

SpecFrames == Init /\ [][NextFrames]_vars

\* Jobs across process restarts: one job id dispatched, cancelled and
\* settled, and the process stopped and started again over the same database.
NextRestart ==
  \/ BridgeConnect
  \/ \E s \in 1..Len(socks) : SocketOpen(s)
  \/ \E s \in 1..Len(socks) : SocketClose(s)
  \/ (Len(socks) < MaxJobSockets /\ TimerFire)
  \/ \E p \in RotatingHandshakes : onHandshake(p)
  \/ \E a \in Slugs : onJobDispatch("j1", a)
  \/ \E r \in Results : ExecSettle("j1", r)
  \/ onJobCancel("j1")
  \/ Restart

SpecRestart == Init /\ [][NextRestart]_vars

\* a frame whose type is the name of the WSClient's own 'reconnected' event
ReconnectedFrame == Frame(TRUE, "reconnected", FALSE, EmptyObject)

\* Inbound frames of every kind, the one named `reconnected` included, over
\* a channel that may drop and reconnect.
NextInbound ==
  \/ BridgeConnect
  \/ \E s \in 1..Len(socks) : SocketOpen(s)
  \/ \E s \in 1..Len(socks) : SocketClose(s)
  \/ (Len(socks) < MaxJobSockets /\ TimerFire)
  \/ \E f \in Frames : onMessage(f)
  \/ (Count("auth") < MaxAuths /\ onMessage(ReconnectedFrame))

SpecInbound == Init /\ [][NextInbound]_vars

\* Recovery: sockets fail and drop, and from some socket on the endpoint
\* accepts connections.  A timer set by setTimeout fires, and a connection
\* attempt that the endpoint accepts opens.
NextLive ==
  \/ BridgeConnect
  \/ \E s \in 1..Len(socks) : SocketOpen(s)
  \/ \E s \in 1..Len(socks) : (Len(socks) <= MaxFailSockets /\ SocketFail(s))
  \/ \E s \in 1..Len(socks) : (Len(socks) < MaxLiveSockets /\ SocketClose(s))
  \/ TimerFire

SpecLive ==
  /\ Init
  /\ [][NextLive]_vars
  /\ WF_vars(TimerFire)
  /\ WF_vars(\E s \in 1..Len(socks) : SocketOpen(s))

\* ------------------------------------------------------------ claims
ActiveSet == DOMAIN activeJobs

\* send calls reporting a terminal outcome of job j (written or dropped)
TerminalSends(j) ==
  Len(SelectSeq(out, LAMBDA m : m.job = j /\ m.type \in {"job_complete", "job_failed"}))

\* C1: once the store holds a terminal status (complete, failed or
\* cancelled) for a job id, no later event writes a different status for it;
\* in particular a job cancelled while active stays cancelled when its
\* executor call settles later.
C1_FirstTerminalWins ==
  [][\A j \in JobIds : jobsTable[j].status \in Terminal
                        => jobsTable'[j].status = jobsTable[j].status]_vars

\* the handler of a dispatch for j that was no duplicate (j was not active
\* and had no row in the store) has finished
DispatchFinished(j) ==
  \/ started[j] > 0 /\ exec[j] = 0
  \/ /\ last.type = "job_dispatch" /\ last.job = j /\ last.threw
     /\ ~last.wasActive /\ jobsTable[j].status = "absent"

\* C2: every job_dispatch that is not a duplicate ends with exactly one of
\* job_complete and job_failed sent for its job_id, never both and never
\* neither, also when it arrives before a workspace_id has been stored.
C2_ExactlyOneOutcome ==
  \A j \in JobIds :
    /\ TerminalSends(j) <= 1
    /\ DispatchFinished(j) => TerminalSends(j) = 1

\* C3: a job_dispatch whose job_id is in the active set starts no executor
\* call, leaves the store as it is and leaves the active set (and the entry
\* of that job_id) as it is.
C3_DuplicateDispatchInert ==
  [][(last'.type = "job_dispatch" /\ last'.job \in ActiveSet)
       => /\ started' = started
          /\ exec' = exec
          /\ jobsTable' = jobsTable
          /\ activeJobs' = activeJobs]_vars

\* a dispatch for an active job_id has just been handled, and the job is
\* still active with its one executor call in flight
C3_Witness ==
  /\ last.type = "job_dispatch" /\ last.wasActive
  /\ last.job \in ActiveSet
  /\ started[last.job] = 1 /\ exec[last.job] = 1

\* C4: after WSClient.close() no connection attempt is started and
\* `connected` never becomes true again.
C4_NoReconnectAfterClose ==
  [][closeCalled => /\ Len(socks') = Len(socks)
                    /\ (connected' => connected)]_vars

\* the messages written on socket s, in order
WrittenOn(s) == SelectSeq(out, LAMBDA m : m.sock = s)

\* C5: on every connection instance the first message written is auth.
C5_AuthFirst ==
  \A s \in 1..Len(socks) :
    WrittenOn(s) # <<>> => WrittenOn(s)[1].type = "auth"

\* a job dispatched on an earlier connection reports its result on a
\* reconnected one while the heartbeat timer runs, after that connection's
\* auth and heartbeat
C5_Witness ==
  \E s \in 2..Len(socks) :
    /\ socks[s].origin = "reconnect"
    /\ heartbeatTimer
    /\ \E i \in 1..Len(out) : out[i].type = "job_progress" /\ out[i].sock \in 1..(s - 1)
    /\ \E i \in 1..Len(out) : out[i].type = "heartbeat" /\ out[i].sock = s
    /\ \E i \in 1..Len(out) :
         out[i].type \in {"job_complete", "job_failed"} /\ out[i].sock = s
    /\ Len(WrittenOn(s)) >= 3

\* C6: after a handshake_complete with a runner_key, the runner key is
\* stored, Config.get('install_token') returns nothing, and every auth sent
\* afterwards carries the runner key.
C6_TokenBurned ==
  hsKey # Null =>
    /\ cfg["runner_key"] = hsKey
    /\ Config_get(env, cfg, "install_token") = Null
    /\ (last.type = "open" /\ out # <<>> /\ out[Len(out)].type = "auth"
          => out[Len(out)].val = hsKey)

\* the delay the schedule 1000, 2000, 5000, 10000, 30000 gives the k-th
\* consecutive close
ExpectedDelay(k) ==
  CASE k = 0 -> 1000 [] k = 1 -> 2000 [] k = 2 -> 5000 [] k = 3 -> 10000
    [] OTHER -> 30000

\* C7: the k-th consecutive close with no open in between schedules its
\* reconnect with delay schedule[min(k, 4)]; delays in a streak are
\* non-decreasing and at most 30000.
C7_BackoffSchedule ==
  /\ \A i \in 1..Len(delays) :
       /\ delays[i].delay = ExpectedDelay(delays[i].k)
       /\ delays[i].delay <= 30000
  /\ \A i \in 1..(Len(delays) - 1) : delays[i].delay <= delays[i + 1].delay
  /\ (shouldReconnect => \A i \in 1..Len(delays) : delays[i].k = i - 1)

\* six closes in a row, the last two scheduled at the ceiling
C7_Witness ==
  /\ Len(delays) >= 6
  /\ delays[5].delay = 30000 /\ delays[6].delay = 30000
  /\ streak >= 6

\* C8: the successful open that follows a socket closure emits exactly one
\* 'reconnected'; the successful open of the caller's connect() emits none.
C8_ReconnectedOnReopen ==
  [][last'.type = "open"
       => nReconnected' - nReconnected = IF streak > 0 THEN 1 ELSE 0]_vars

\* the channel opened for the caller, dropped, and has just reopened
C8_Witness ==
  /\ last.type = "open" /\ bridge = "connected"
  /\ nOpens = 2 /\ nReconnected = 1

\* C9: a job_cancel for a job_id that is not in the active set leaves the
\* store, the active set and the outbound stream unchanged.
C9_CancelInactiveInert ==
  [][(last'.type = "job_cancel" /\ last'.job \notin ActiveSet)
       => /\ jobsTable' = jobsTable
          /\ activeJobs' = activeJobs
          /\ out' = out]_vars

\* a cancel has just been handled for a job that had already finished
C9_Witness ==
  /\ last.type = "job_cancel" /\ ~last.wasActive
  /\ jobsTable[last.job].status \in {"complete", "failed"}

\* C10: a job_dispatch for a job_id that is active or terminal in the store
\* raises no error and leaves the store, the active set and the outbound
\* stream unchanged.
C10_DuplicateDispatchSilent ==
  [][(/\ last'.type = "job_dispatch"
      /\ \/ last'.job \in ActiveSet
         \/ jobsTable[last'.job].status \in Terminal)
       => /\ ~last'.threw
          /\ jobsTable' = jobsTable
          /\ activeJobs' = activeJobs
          /\ out' = out]_vars

\* C11: every job that reaches a terminal status (complete, failed or
\* cancelled) gets exactly one terminal write to the store and exactly one
\* terminal report handed to the channel: never more than one of either,
\* and one of each once nothing is still running for the job.
C11_OneWriteOneReport ==
  \A j \in JobIds :
    /\ termWrites[j] <= 1
    /\ TerminalSends(j) <= 1
    /\ (jobsTable[j].status \in Terminal /\ exec[j] = 0)
         => (termWrites[j] = 1 /\ TerminalSends(j) = 1)

\* C12: every job_dispatch that is not a duplicate ends with a terminal
\* status (complete, failed or cancelled) for its job_id in the store and
\* with the job_id out of the active set: once the handler of the dispatch
\* has finished (the executor call settled, or the handler stopped early),
\* the store holds a terminal status for the job.
C12_DispatchReachesTerminal ==
  \A j \in JobIds :
    DispatchFinished(j) => /\ jobsTable[j].status \in Terminal
                           /\ j \notin ActiveSet

\* C13: in every reachable state of the credential store, across
\* `start --token`, setup, handshake_complete and restarts, at most one of
\* install_token and runner_key is stored.
C13_AtMostOneToken ==
  ~(cfg["runner_key"] # Null /\ cfg["install_token"] # Null)

\* C14: Bridge.connect() with neither runner_key nor install_token
\* available fails with an error before any socket is created: no
\* connection attempt, no message, no heartbeat timer, no reconnect
\* scheduled; a socket only ever exists for a Bridge that found a token.
C14_NoTokenFailsFast ==
  /\ (bridge \in {"connecting", "connected"} \/ socks # <<>>) => token # Null
  /\ (bridge = "failed" /\ token = Null)
       => /\ last.type = "connect" /\ last.threw
          /\ socks = <<>>
          /\ out = <<>>
          /\ ~heartbeatTimer
          /\ timers = <<>>
          /\ ~connected

\* Bridge.connect() has just failed for want of a token
C14_Witness ==
  /\ bridge = "failed" /\ last.type = "connect" /\ last.threw
  /\ CurrentToken(env, cfg) = Null

\* C15: a send while the socket is not open writes nothing, raises no error
\* and changes no channel state, and what was dropped is never written
\* later: a message is written only by the send call that carries it, on
\* the socket that is open at that call, and the record of earlier sends
\* never changes.
C15_DroppedSendInert ==
  [][/\ Len(out') >= Len(out)
     /\ SubSeq(out', 1, Len(out)) = out
     /\ \A i \in (Len(out) + 1)..Len(out') :
          /\ out'[i].sock # 0
               => /\ out'[i].sock = Len(socks')
                  /\ socks'[Len(socks')].state = "open"
          /\ out'[i].sock = 0
               => /\ ~IsOpen(socks')
                  /\ wsVars' = wsVars
                  /\ ~last'.threw]_vars

\* the result of a job was dropped while the channel was down; the channel
\* has reconnected and written other messages, and not that result
C15_Witness ==
  /\ Len(socks) = 2 /\ IsOpen(socks)
  /\ \E i \in 1..Len(out) : out[i].sock = 0 /\ out[i].type = "job_complete"
  /\ Len(WrittenOn(2)) >= 2
  /\ \A k \in 1..Len(WrittenOn(2)) : WrittenOn(2)[k].type # "job_complete"

\* C16: a heartbeat tick writes a heartbeat message if and only if the
\* channel is connected at that moment; the message's active_jobs is the
\* size of the active set and its agents list has the slug of each active
\* job; a tick while disconnected sends and queues nothing, and heartbeats
\* are sent by ticks only (none is added when the channel reconnects).
C16_HeartbeatIffConnected ==
  [][/\ last'.type = "heartbeat"
          => IF connected
             THEN /\ Len(out') = Len(out) + 1
                  /\ SubSeq(out', 1, Len(out)) = out
                  /\ LET m == out'[Len(out')]
                     IN /\ m.type = "heartbeat"
                        /\ m.sock = Len(socks) /\ socks[m.sock].state = "open"
                        /\ m.val.active_jobs = Cardinality(ActiveSet)
                        /\ DOMAIN m.val.agents = ActiveSet
                        /\ \A j \in ActiveSet :
                             m.val.agents[j] = activeJobs[j].agent_slug
             ELSE out' = out
     /\ Len(SelectSeq(out', LAMBDA m : m.type = "heartbeat")) # Count("heartbeat")
          => last'.type = "heartbeat"]_vars

\* a tick on a reconnected channel has just written a heartbeat that
\* reports the one job in flight
C16_Witness ==
  /\ last.type = "heartbeat" /\ connected
  /\ out[Len(out)].type = "heartbeat" /\ out[Len(out)].sock = 2
  /\ out[Len(out)].val.active_jobs = 1
  /\ ActiveSet = {"j1"}

\* C17: an inbound frame that is not valid JSON, has no type, or has a type
\* with no subscriber is dropped: no handler runs, the connection and the
\* channel's flags stay as they are, nothing is sent, the active set and the
\* stores are unchanged.  A typed frame without data reaches the handler of
\* its type, which reads an empty object: ping is answered with pong,
\* job_cancel and config_sync find nothing to do, handshake_complete stores
\* nothing, job_dispatch has no job to create.
C17_BadFramesDropped ==
  [][\A f \in Frames :
       onMessage(f) =>
         /\ (~f.json \/ f.type = Null \/ f.type \notin Subscribed)
              => /\ last'.type = "message_dropped"
                 /\ UNCHANGED <<storeVars, jobVars, bridge, token, heartbeatTimer,
                                wsVars, out>>
         /\ (f.json /\ f.type \in Subscribed /\ ~f.hasData)
              => /\ last'.type = f.type
                 /\ UNCHANGED <<storeVars, activeJobs, exec, wsVars>>
                 /\ (f.type = "ping"
                       => out' = Append(out, [sock |-> IF IsOpen(socks) THEN Len(socks)
                                                       ELSE 0,
                                              type |-> "pong", job |-> Null,
                                              val |-> Null]))
                 /\ (f.type = "job_dispatch" => last'.threw)]_vars

\* a frame has just been dropped on an open connection with a job in flight
C17_Witness ==
  /\ last.type = "message_dropped"
  /\ connected /\ IsOpen(socks)
  /\ ActiveSet = {"j1"} /\ exec["j1"] = 1

\* C18: when the executor call of a job settles, the store gets `complete`
\* (success) or `failed` (otherwise) for the job and the job_id leaves the
\* active set, whether or not the channel is connected; while it is
\* disconnected the report is dropped and the bookkeeping is the same.
C18_BookkeepingWhenDisconnected ==
  [][last'.type \in {"exec_ok", "exec_fail"}
       => LET j == last'.job
          IN /\ jobsTable'[j].status = IF last'.type = "exec_ok" THEN "complete"
                                       ELSE "failed"
             /\ j \notin DOMAIN activeJobs'
             /\ exec'[j] = exec[j] - 1
             /\ termWrites'[j] = termWrites[j] + 1
             /\ (~IsOpen(socks) => out'[Len(out')].sock = 0)]_vars

\* a job dispatched on an open channel has just settled while the channel
\* was down: its report was dropped, its row is terminal, it is not active
C18_Witness ==
  /\ last.type \in {"exec_ok", "exec_fail"} /\ last.wasActive
  /\ ~connected /\ ~IsOpen(socks)
  /\ out[Len(out)].sock = 0 /\ out[Len(out)].job = last.job
  /\ jobsTable[last.job].status \in {"complete", "failed"}
  /\ last.job \notin ActiveSet

\* the text the executor reported with a failure, or the default text
ErrorText(r) == IF r.error # Null THEN r.error ELSE "Agent execution failed"

\* C19: for a job that was not cancelled, when the executor call settles:
\* on success the message sent is job_complete with the executor's output
\* and the stored status becomes `complete` (with that output); on a
\* failure (thrown, timed out, or success = false) the message sent is
\* job_failed with the error text and the stored status becomes `failed`
\* with that error text; so the stored status matches the message type.
C19_OutcomeMatchesReport ==
  [][\A j \in JobIds, r \in Results :
       (j \in ActiveSet /\ ExecSettle(j, r))
         => LET m == out'[Len(out')]
                row == jobsTable'[j]
            IN /\ Len(out') = Len(out) + 1
               /\ m.job = j
               /\ IF r.success
                  THEN /\ m.type = "job_complete" /\ m.val = r.output
                       /\ row.status = "complete"
                       /\ row.output = JSON_stringify(r.output)
                       /\ row.error = Null
                  ELSE /\ m.type = "job_failed" /\ m.val = ErrorText(r)
                       /\ row.status = "failed"
                       /\ row.error = ErrorText(r)
                       /\ row.output = Null]_vars

\* one job has ended complete with its output and the other failed with
\* the executor's error text, neither having been cancelled
C19_Witness ==
  /\ jobsTable["j1"].status = "complete" /\ jobsTable["j1"].output = "\"draft A\""
  /\ jobsTable["j2"].status = "failed" /\ jobsTable["j2"].error = "boom"
  /\ termWrites["j1"] = 1 /\ termWrites["j2"] = 1
  /\ TerminalSends("j1") = 1 /\ TerminalSends("j2") = 1

\* C20: the promise of the caller's first WSClient.connect() settles
\* exactly once: it resolves when the first socket opens, it rejects when
\* the first socket fails before opening, and once settled it never
\* changes; an error on a socket that has opened does not reject it.
\* (bridge is "connecting" while that promise is pending, "connected" once
\* it has resolved and "failed" once it has rejected.)
C20_ConnectSettlesOnce ==
  [][/\ bridge \in {"connected", "failed"} => bridge' = bridge
     /\ \A s \in 1..Len(socks) :
          (bridge = "connecting" /\ socks[s].origin = "initial"
             /\ socks[s].state \in {"connecting", "aborting"})
            => /\ socks'[s].state = "open" => bridge' = "connected"
               /\ socks'[s].state = "closed" => bridge' = "failed"
               /\ socks'[s].state \in {"connecting", "aborting"}
                    => bridge' = "connecting"
     /\ last'.type = "socket_error" => bridge' = bridge]_vars

\* the first connect() resolved, the channel has since dropped and
\* reconnected, and an error has just been raised on the open socket
C20_Witness ==
  /\ last.type = "socket_error"
  /\ bridge = "connected"
  /\ nOpens >= 2 /\ connected

\* C21: a reconnection attempt that fails before opening raises no error
\* to any caller (the first connect()'s outcome stays as it is), emits no
\* 'reconnected', sends nothing, and schedules exactly one further attempt
\* while shouldReconnect is true (none otherwise).
C21_FailedReconnectRetriesOnce ==
  [][\A s \in 1..Len(socks) :
       (/\ socks[s].origin = "reconnect"
        /\ socks[s].state \in {"connecting", "aborting"}
        /\ socks'[s].state = "closed")
         => /\ ~last'.threw
            /\ bridge' = bridge
            /\ nReconnected' = nReconnected
            /\ out' = out
            /\ ~connected'
            /\ Len(timers') = Len(timers) + IF shouldReconnect THEN 1 ELSE 0]_vars

\* the second reconnection attempt in a row has just failed, and one timer
\* is pending for the third
C21_Witness ==
  /\ last.type = "fail"
  /\ Len(socks) >= 3
  /\ socks[Cur].origin = "reconnect" /\ socks[Cur].state = "closed"
  /\ socks[Cur - 1].origin = "reconnect" /\ socks[Cur - 1].state = "closed"
  /\ shouldReconnect /\ Len(timers) = 1
  /\ nReconnected = 0

\* C22: a failure of the initial connection attempt is not fatal: the
\* channel retries, and once a later attempt has opened, auth has been sent
\* on that connection and the heartbeat timer runs, so that heartbeats are
\* emitted on every tick while connected (until the Bridge is disconnected).
C22_InitialFailureRecovers ==
  (connected /\ IsOpen(socks) /\ ~closeCalled)
    => /\ WrittenOn(Cur) # <<>> /\ WrittenOn(Cur)[1].type = "auth"
       /\ heartbeatTimer

\* the channel is connected on a socket made by a reconnect, and the first
\* message written on that socket is auth
ReconnectedAndAuthenticated ==
  /\ connected /\ IsOpen(socks)
  /\ socks[Cur].origin = "reconnect"
  /\ WrittenOn(Cur) # <<>> /\ WrittenOn(Cur)[1].type = "auth"

\* C23: after a socket closes while shouldReconnect is true, a reconnect
\* attempt is eventually started (a new socket is created); and, the
\* endpoint accepting connections from some point on, the channel
\* eventually is connected again with auth sent on the new connection.
C23_EventuallyReconnects ==
  /\ \A n \in 1..MaxLiveSockets :
       (Len(socks) = n /\ socks[n].state = "closed" /\ shouldReconnect)
         ~> (Len(socks) > n)
  /\ (~connected /\ streak > 0 /\ shouldReconnect) ~> ReconnectedAndAuthenticated

\* the channel came back after a reconnection attempt had failed
C23_Witness ==
  /\ ReconnectedAndAuthenticated
  /\ last.type = "open"
  /\ \E s \in 2..(Cur - 1) : socks[s].origin = "reconnect" /\ socks[s].state = "closed"

\* C24: a job_dispatch received on a connection on which no
\* handshake_complete has been received yet starts no executor call and
\* creates no job record.
C24_NoJobBeforeHandshake ==
  [][(last'.type = "job_dispatch" /\ hsSock # RxSock)
       => /\ started' = started
          /\ exec' = exec
          /\ jobsTable' = jobsTable
          /\ activeJobs' = activeJobs]_vars

\* the message types the runner produces
ProducedTypes ==
  {"auth", "pong", "job_progress", "job_complete", "job_failed", "heartbeat"}

\* C25: every message the runner writes to the channel has a type in
\* {auth, pong, job_progress, job_complete, job_failed, heartbeat}; a ping
\* received while the socket is open writes exactly one message, a pong.
C25_ProducedTypes ==
  [][/\ \A i \in 1..Len(out') : out'[i].type \in ProducedTypes
     /\ (last'.type = "ping" /\ IsOpen(socks))
          => out' = Append(out, [sock |-> Len(socks), type |-> "pong", job |-> Null,
                                 val |-> Null])]_vars

\* a ping has just been answered on a connection that also carried auth,
\* a progress report and a heartbeat
C25_Witness ==
  /\ last.type = "ping" /\ IsOpen(socks)
  /\ out[Len(out)].type = "pong" /\ out[Len(out)].sock = Cur
  /\ \E i \in 1..Len(out) : out[i].type = "job_progress" /\ out[i].sock = Cur
  /\ \E i \in 1..Len(out) : out[i].type = "heartbeat" /\ out[i].sock = Cur
  /\ WrittenOn(Cur)[1].type = "auth"

\* C26: a config_sync with a config payload merges every key/value pair of
\* the payload into the config store, stores a workspace API key that the
\* payload carries, and hands the payload to applyCloudConfig (which stores
\* its voice profile); a config_sync without a config payload changes
\* nothing.
C26_ConfigSyncMerges ==
  [][\A c \in ConfigPayloads :
       onConfigSync(c) =>
         IF c.present
         THEN /\ c.api_key # Null => cfg'["BOLTA_API_KEY"] = c.api_key
              /\ \A k \in {"voice_profile", "agent_settings"} :
                   c[k] # Null => cfg'[k] = c[k]
         ELSE cfg' = cfg]_vars

\* C27: every job_id in the active set has in-memory status `running` and
\* stored status `running`; hence no entry of the active set is terminal
\* and a job whose stored status is terminal is not in the active set.
C27_ActiveIsRunning ==
  /\ \A j \in ActiveSet :
       activeJobs[j].status = "running" /\ jobsTable[j].status = "running"
  /\ \A j \in JobIds : jobsTable[j].status \in Terminal => j \notin ActiveSet

\* one job is active while the other has been cancelled and has then
\* settled
C27_Witness ==
  /\ ActiveSet = {"j2"}
  /\ jobsTable["j2"].status = "running"
  /\ jobsTable["j1"].status \in {"complete", "failed"}
  /\ termWrites["j1"] = 2

\* C28 as stated: `connected` is true only while the current socket is open
\* (false before the first open and after every close), reconnectAttempt
\* goes back to 0 on a successful open and on no other event, and the first
\* reconnect delay after a successful open is the first schedule value.
C28_ConnectedOnlyWhileOpen ==
  /\ connected => IsOpen(socks)
  /\ (nOpens = 0 => ~connected)

\* the steps of C28: a close event clears `connected`, only an open event
\* lowers reconnectAttempt (to 0), and the first reconnect scheduled after
\* an open waits RECONNECT_DELAYS[1]
C28_Steps ==
  /\ (last'.type \in {"close", "fail"} => ~connected')
  /\ (last'.type = "open" => (connected' /\ reconnectAttempt' = 0))
  /\ (reconnectAttempt' < reconnectAttempt => last'.type = "open")
  /\ ((streak = 0 /\ nOpens > 0 /\ Len(timers') > Len(timers))
        => timers'[Len(timers')] = RECONNECT_DELAYS[1])

\* C28 amended: `connected` is true only between the open event and the
\* close event of the current socket, so the socket is open or, after
\* close() was called on it, closing; it is false before the first open and
\* after every close event. reconnectAttempt is set back to 0 by a
\* successful open and lowered by no other event, and the first reconnect
\* delay after a successful open is the first schedule value.
C28_ConnectedBetweenOpenAndClose ==
  /\ [](/\ connected => (Len(socks) > 0 /\ socks[Cur].state \in {"open", "closing"})
        /\ (connected /\ ~IsOpen(socks)) => closeCalled
        /\ nOpens = 0 => ~connected)
  /\ [][C28_Steps]_vars

\* close() was called on the open socket, whose close event is pending
C28_Witness ==
  /\ connected
  /\ socks[Cur].state = "closing"
  /\ closeCalled
  /\ reconnectAttempt = 0
  /\ nOpens > 0

\* C29: a job_cancel for a job_id in the active set removes it from the
\* active set and sets its stored status to `cancelled` in the same step,
\* sends no message upstream, and leaves the executor call in flight for
\* that job running.
C29_CancelActiveJob ==
  [][(last'.type = "job_cancel" /\ last'.job \in ActiveSet)
       => /\ last'.job \notin DOMAIN activeJobs'
          /\ DOMAIN activeJobs' = ActiveSet \ {last'.job}
          /\ jobsTable'[last'.job].status = "cancelled"
          /\ \A j \in JobIds \ {last'.job} : jobsTable'[j] = jobsTable[j]
          /\ out' = out
          /\ exec' = exec
          /\ started' = started]_vars

\* an active job has just been cancelled while its executor call is in
\* flight
C29_Witness ==
  /\ last.type = "job_cancel" /\ last.wasActive
  /\ last.job \notin ActiveSet
  /\ jobsTable[last.job].status = "cancelled"
  /\ exec[last.job] = 1

\* job j was dispatched on a connection earlier than the current one, which
\* is an open reconnection
DispatchedBeforeDrop(j) ==
  /\ IsOpen(socks)
  /\ socks[Cur].origin = "reconnect"
  /\ \E i \in 1..Len(out) :
       out[i].type = "job_progress" /\ out[i].job = j /\ out[i].sock \in 1..(Cur - 1)

\* C30: a socket close and a later reconnect (timer, new socket, open)
\* leave the active set and the job store unchanged, and a job dispatched
\* before the drop whose executor call settles after the reconnect has its
\* job_complete or job_failed written on the new connection, after that
\* connection's auth message, without a new dispatch.
C30_ReconnectKeepsJobs ==
  [][/\ (last'.type \in {"close", "fail", "timer", "open"}
          => /\ activeJobs' = activeJobs
             /\ jobsTable' = jobsTable
             /\ exec' = exec
             /\ started' = started)
     /\ \A j \in JobIds, r \in Results :
          (ExecSettle(j, r) /\ DispatchedBeforeDrop(j))
            => /\ Len(out') = Len(out) + 1
               /\ out'[Len(out')].type = IF r.success THEN "job_complete" ELSE "job_failed"
               /\ out'[Len(out')].job = j
               /\ out'[Len(out')].sock = Cur
               /\ WrittenOn(Cur) # <<>>
               /\ WrittenOn(Cur)[1].type = "auth"
               /\ started' = started]_vars

\* the job dispatched once on the first connection has reported its result
\* on the reconnected one, after that connection's auth
C30_Witness ==
  /\ last.type \in {"exec_ok", "exec_fail"}
  /\ Cur = 2 /\ socks[1].state = "closed" /\ socks[2].origin = "reconnect"
  /\ started[last.job] = 1
  /\ \E i \in 1..Len(out) :
       out[i].type = "job_progress" /\ out[i].job = last.job /\ out[i].sock = 1
  /\ Len(WrittenOn(2)) >= 2
  /\ WrittenOn(2)[1].type = "auth"
  /\ out[Len(out)].sock = 2
  /\ out[Len(out)].type \in {"job_complete", "job_failed"}
  /\ out[Len(out)].job = last.job
  /\ jobsTable[last.job].status \in {"complete", "failed"}

\* C31: handling the same handshake_complete twice leaves the config store
\* as handling it once does; the burn of an install token that is already
\* absent raises nothing and changes nothing; a handshake_complete without
\* runner_key leaves runner_key and install_token as they were.
C31_HandshakeIdempotent ==
  /\ [](\A p \in HandshakePayloads :
          HandshakeStore(HandshakeStore(cfg, p), p) = HandshakeStore(cfg, p))
  /\ [][\A p \in HandshakePayloads :
          onHandshake(p)
            => /\ ~last'.threw
               /\ (last'.repeated => cfg' = cfg)
               /\ ((p.runner_key # Null /\ cfg["install_token"] = Null)
                     => /\ cfg'["install_token"] = Null
                        /\ cfg'["runner_key"] = p.runner_key)
               /\ (p.runner_key = Null
                     => /\ cfg'["runner_key"] = cfg["runner_key"]
                        /\ cfg'["install_token"] = cfg["install_token"])]_vars

\* the handshake that issues a runner key has just been handled a second
\* time in a row, the install token having been burned by the first
C31_Witness ==
  /\ last.type = "handshake_complete"
  /\ last.repeated
  /\ last.payload.runner_key # Null
  /\ cfg["runner_key"] = last.payload.runner_key
  /\ cfg["install_token"] = Null

ProgressSends(j) ==
  Len(SelectSeq(out, LAMBDA m : m.job = j /\ m.type = "job_progress"))

\* C33: for every job, each job_progress message for its job_id is sent
\* after the job entered the active set (in the step that put it there) and
\* before the job's job_complete or job_failed message; none is sent after
\* the terminal message.
C33_ProgressBeforeTerminal ==
  /\ [](\A i \in 1..Len(out), k \in 1..Len(out) :
          (/\ out[i].type = "job_progress"
           /\ out[k].type \in {"job_complete", "job_failed"}
           /\ out[k].job = out[i].job) => i < k)
  /\ [][\A j \in JobIds :
          ProgressSends(j)' # ProgressSends(j)
            => /\ j \in DOMAIN activeJobs'
               /\ TerminalSends(j) = 0
               /\ TerminalSends(j)' = 0]_vars

\* a job has sent its progress report and then its terminal message, and a
\* later dispatch of the same job_id was handled without a further report
C33_Witness ==
  /\ last.type = "job_dispatch"
  /\ TerminalSends(last.job) = 1
  /\ ProgressSends(last.job) = 1
  /\ started[last.job] = 1

\* the sockets whose state is one of states
SocksIn(states) == {s \in 1..Len(socks) : socks[s].state \in states}

\* C34: at most one reconnect is outstanding: pending backoff timers and
\* sockets still connecting number at most one together, and at most one
\* socket is open (or closing) at a time, and then none is pending or
\* connecting.
C34_OneReconnectOutstanding ==
  /\ Len(timers) + Cardinality(SocksIn({"connecting", "aborting"})) <= 1
  /\ Cardinality(SocksIn({"open", "closing"})) <= 1
  /\ (SocksIn({"open", "closing"}) # {}
        => /\ timers = <<>>
           /\ SocksIn({"connecting", "aborting"}) = {}
           /\ SocksIn({"open", "closing"}) = {Cur})

\* after an open, a close and a failed reconnect attempt, the one backoff
\* timer of the second retry is pending
C34_Witness ==
  /\ nOpens >= 1
  /\ streak >= 2
  /\ Len(timers) = 1
  /\ Cur >= 2 /\ socks[Cur].origin = "reconnect" /\ socks[Cur].state = "closed"
  /\ last.type = "fail"

\* C35: an auth message is sent only as the direct consequence of a socket
\* open: every step writes as many auth messages as sockets open in it
\* (so the auth messages sent number the successful opens), and no inbound
\* frame, whatever its type, `reconnected` included, writes one.
C35_AuthOnlyOnOpen ==
  [][/\ Count("auth")' - Count("auth") = nOpens' - nOpens
     /\ \A f \in Frames \cup {ReconnectedFrame} :
          onMessage(f) => Count("auth")' = Count("auth")]_vars

\* C36 as stated: once Bridge.connect has found a credential, at least one
\* of runner_key and install_token is stored in the config store.
C36_CredentialStored ==
  token # Null => (cfg["runner_key"] # Null \/ cfg["install_token"] # Null)

\* C36 amended: once Bridge.connect has found a credential, Config.get
\* keeps returning one (runner_key or install_token, from the config table
\* or from the environment) after any sequence of handshake_complete and
\* config_sync events, so every `reconnected` event writes an auth message
\* with it on the connection that opened.
C36_CredentialAvailable ==
  /\ [](token # Null => CurrentToken(env, cfg) # Null)
  /\ [][nReconnected' > nReconnected
          => /\ Len(out') = Len(out) + 1
             /\ out'[Len(out')].type = "auth"
             /\ out'[Len(out')].sock = Len(socks')
             /\ out'[Len(out')].val = CurrentToken(env, cfg)
             /\ out'[Len(out')].val # Null]_vars

\* the install token comes from the environment only; after a
\* handshake_complete and a reconnection the auth message of the new
\* connection carries it
C36_Witness ==
  /\ last.type = "open"
  /\ nReconnected >= 1
  /\ hsSock # 0
  /\ cfg["runner_key"] = Null /\ cfg["install_token"] = Null
  /\ out[Len(out)].type = "auth"
  /\ out[Len(out)].sock = Cur
  /\ out[Len(out)].val = env["install_token"]

\* C37: on the first connection and after reconnections, each inbound
\* frame of a subscribed type runs its handler once: a ping frame writes
\* one pong and nothing else, and a job_dispatch frame for a new job_id
\* creates one job record, starts one executor call and writes one
\* job_progress, without the error a second run of the handler would raise.
C37_HandlerRunsOnce ==
  [][\A f \in Frames :
       onMessage(f) =>
         LET ev == FrameEvent(f)
             j == ev.data.job_id
         IN /\ ev.type = "ping"
                 => /\ Len(out') = Len(out) + 1
                    /\ Count("pong")' = Count("pong") + 1
            /\ (ev.type = "job_dispatch" /\ j # Null)
                 => /\ started'[j] - started[j] \in {0, 1}
                    /\ Len(out') - Len(out) = started'[j] - started[j]
                    /\ (/\ jobsTable[j].status = "absent"
                        /\ Config_get(env, cfg, "workspace_id") # Null)
                         => /\ started'[j] = started[j] + 1
                            /\ exec'[j] = exec[j] + 1
                            /\ jobsTable'[j].status = "running"
                            /\ ProgressSends(j)' = ProgressSends(j) + 1
                            /\ ~last'.threw]_vars

\* on a reconnected socket a job_dispatch frame has created its one job
\* and a ping frame has then been answered by one pong
C37_Witness ==
  /\ last.type = "ping"
  /\ Cur >= 2 /\ socks[Cur].origin = "reconnect" /\ socks[Cur].state = "open"
  /\ Count("pong") = 1
  /\ out[Len(out)].type = "pong" /\ out[Len(out)].sock = Cur
  /\ started["j1"] = 1
  /\ \E i \in 1..Len(out) :
       out[i].type = "job_progress" /\ out[i].job = "j1" /\ out[i].sock = Cur

\* C38: the set of job ids whose stored status is `running` equals the
\* in-memory active set in every reachable state, also after the process
\* stopped with jobs in flight and a new process started on the same store.
C38_RunningEqualsActive ==
  {j \in JobIds : jobsTable[j].status = "running"} = ActiveSet

====
